---- MODULE Spec2Model ----
(***************************************************************************)
(* Model of src/src/App.jsx: the dashboard's session state (useState       *)
(* cells), the bulk fetch fetchInitialData, the push subscription          *)
(* subscribeToUpdates, the filter pipeline filteredPoints / filteredTrips  *)
(* and the statistics fold stats.                                          *)
(*                                                                         *)
(* Optional fields are modelled as sequences of length at most one:        *)
(* <<>> is null/undefined/'' (falsy), <<v>> is the value v.                *)
(***************************************************************************)
EXTENDS Integers, Sequences, FiniteSets, TLC

\* ------------------------------------------------------------- bounds
\* Longest points collection drawn by the pipeline specification.
MaxPts == 3
\* Rows inserted into the data store by other clients during a session.
MaxInserts == 2
\* Calls of fetchInitialData in flight at once (the mount call, refresh clicks).
MaxFetch == 2
\* Clock ticks per calendar day (resolution of created_at).
TicksPerDay == 2

\* ------------------------------------------------------- data universe
At(day, tod) == <<day * TicksPerDay + tod>>

Trip(id, user, start) == [id |-> id, user_id |-> user, start_time |-> start]

Point(id, trip, type, at, adults, calves, danger, health) == [id |-> id, trip_id |-> trip, type |-> type, created_at |-> at, adults |-> adults, calves |-> calves, danger_type |-> danger, health_status |-> health]

\* Rows of table profiles (static during a session). User "u2" owns trips
\* but has no profile row, so it is never offered by the user select.
ProfileRows == << [id |-> "u1"] >>

\* Rows of table trips in insertion order; the store holds a prefix.
TripRows == << Trip("t1", "u2", 2), Trip("t2", "u1", 1), Trip("t3", "u1", 4), Trip("t4", "u2", 3) >>

\* Rows of table trip_data in insertion order; the store holds a prefix.
\* "t9" references no trip (dangling); the start marker carries fields that
\* mean nothing for its type and has no parseable created_at.
PointRows ==
  << Point(1, "t1", "Avistamiento", At(1, 0), <<2>>, <<>>, <<>>, <<>>),
     Point(2, "t2", "Peligro", At(2, TicksPerDay - 1), <<>>, <<>>, <<"net">>, <<"injured">>),
     Point(3, "t9", "Peligro", At(3, 0), <<>>, <<>>, <<>>, <<>>),
     Point(4, "t1", "Inicio", <<>>, <<5>>, <<1>>, <<"net">>, <<>>) >>

LayerTypes == {"Inicio", "Fin", "Avistamiento", "Peligro"}

\* Values of the two date inputs: '' or a calendar day.
DateInputs == {<<>>, <<2>>}

Range(s) == {s[i] : i \in 1..Len(s)}

Prefix(s, n) == SubSeq(s, 1, n)

VARIABLES
  phase,            \* "init" | "mounted" | "unmounted": the component's lifecycle
  loading, profiles, trips, points,
  filterUser, filterStartDate, filterEndDate, filterTrip, activeLayers,
  storeTrips,       \* number of rows of TripRows in the remote table trips
  storePoints,      \* number of rows of PointRows in the remote table trip_data
  channel,          \* INSERT notifications in flight on the realtime channel
  fetches,          \* the calls of fetchInitialData in flight, oldest first: the query each awaits
  initLoad,         \* history: the outcomes of the mount call's queries
  opened, released, \* supabase.channel(..).subscribe() / removeChannel calls
  pushLog           \* history: what the push handlers did since the last bulk replace

vars == <<phase, loading, profiles, trips, points, filterUser, filterStartDate, filterEndDate, filterTrip, activeLayers, storeTrips, storePoints, channel, fetches, initLoad, opened, released, pushLog>>

uiVars == <<filterUser, filterStartDate, filterEndDate, filterTrip, activeLayers>>

remoteVars == <<storeTrips, storePoints, channel, fetches, initLoad, opened, released, pushLog>>

\* --------------------------------------------------- filter pipeline
\* parseISO of a created_at value: a tick, or Invalid Date.
InvalidDate == -1

parseISO(s) == IF s = <<>> THEN InvalidDate ELSE s[1]

\* parseISO of a date input 'yyyy-MM-dd': local midnight of that day.
parseISODay(d) == d[1] * TicksPerDay

startOfDay(t) == (t \div TicksPerDay) * TicksPerDay

endOfDay(t) == (t \div TicksPerDay) * TicksPerDay + (TicksPerDay - 1)

\* Date comparison pDate >= x / pDate <= x: false when pDate is Invalid Date (NaN).
DateGeq(a, b) == a # InvalidDate /\ a >= b

DateLeq(a, b) == a # InvalidDate /\ a <= b

\* trips.filter(t => t.user_id === filterUser).map(t => t.id)
userTripIds(ts, user) == LET owned == SelectSeq(ts, LAMBDA t : t.user_id = user) IN [i \in 1..Len(owned) |-> owned[i].id]

\* userTripIds.includes(id)
includes(ids, id) == \E i \in 1..Len(ids) : ids[i] = id

\* As StageUser, but a user who owns no trip restricts nothing.
StageUserLenient(result, ts, user) == IF user # "all" /\ userTripIds(ts, user) # <<>> THEN SelectSeq(result, LAMBDA p : includes(userTripIds(ts, user), p.trip_id)) ELSE result

StageUser(result, ts, user) == IF user # "all" THEN SelectSeq(result, LAMBDA p : includes(userTripIds(ts, user), p.trip_id)) ELSE result

DateKeep(p, from, to) ==
  LET pDate == parseISO(p.created_at) IN
  IF from # <<>> /\ to # <<>>
    THEN DateGeq(pDate, startOfDay(parseISODay(from))) /\ DateLeq(pDate, endOfDay(parseISODay(to)))
    ELSE IF from # <<>>
      THEN DateGeq(pDate, startOfDay(parseISODay(from)))
      ELSE DateLeq(pDate, endOfDay(parseISODay(to)))

StageDate(result, from, to) == IF from # <<>> \/ to # <<>> THEN SelectSeq(result, LAMBDA p : DateKeep(p, from, to)) ELSE result

\* As StageTrip, but the kept points come newest first.
StageTripNewestFirst(result, trip) == LET kept == IF trip # "all" THEN SelectSeq(result, LAMBDA p : p.trip_id = trip) ELSE result IN [i \in 1..Len(kept) |-> kept[Len(kept) + 1 - i]]

StageTrip(result, trip) == IF trip # "all" THEN SelectSeq(result, LAMBDA p : p.trip_id = trip) ELSE result

\* activeLayers[p.type]: undefined (falsy) for a type that is no key.
LayerOn(layers, type) == type \in DOMAIN layers /\ layers[type]

StageLayers(result, layers) == SelectSeq(result, LAMBDA p : LayerOn(layers, p.type))

FilterPoints(ps, ts, user, from, to, trip, layers) == StageLayers(StageTrip(StageDate(StageUser(ps, ts, user), from, to), trip), layers)

filteredPoints == FilterPoints(points, trips, filterUser, filterStartDate, filterEndDate, filterTrip, activeLayers)

filteredTrips == IF filterUser = "all" THEN trips ELSE SelectSeq(trips, LAMBDA t : t.user_id = filterUser)

\* ------------------------------------------------------ statistics fold
OrZero(x) == IF x = <<>> \/ x = <<0>> THEN 0 ELSE x[1]

OrDesconocido(x) == IF x = <<>> \/ x = <<"">> THEN "Desconocido" ELSE x[1]

\* As Bump, but the histogram object is replaced instead of updated.
BumpOverwrite(h, key) == [k \in {key} |-> IF key \in DOMAIN h THEN h[key] + 1 ELSE 1]

\* acc[key] = (acc[key] || 0) + 1
Bump(h, key) == IF key \in DOMAIN h THEN [h EXCEPT ![key] = @ + 1] ELSE [k \in DOMAIN h \cup {key} |-> IF k = key THEN 1 ELSE h[k]]

EmptyHist == [k \in {} |-> 0]

StatsInit == [adults |-> 0, calves |-> 0, danger |-> 0, dangerTypes |-> EmptyHist, healthStatus |-> EmptyHist]

\* As StatsStep, but a plain else: every point that is no sighting counts as a hazard.
StatsStepElse(acc, curr) ==
  IF curr.type = "Avistamiento"
    THEN [acc EXCEPT !.adults = @ + OrZero(curr.adults), !.calves = @ + OrZero(curr.calves)]
    ELSE [acc EXCEPT !.danger = @ + 1,
                     !.dangerTypes = Bump(@, OrDesconocido(curr.danger_type)),
                     !.healthStatus = Bump(@, OrDesconocido(curr.health_status))]

StatsStep(acc, curr) ==
  IF curr.type = "Avistamiento"
    THEN [acc EXCEPT !.adults = @ + OrZero(curr.adults), !.calves = @ + OrZero(curr.calves)]
    ELSE IF curr.type = "Peligro"
      THEN [acc EXCEPT !.danger = @ + 1,
                       !.dangerTypes = Bump(@, OrDesconocido(curr.danger_type)),
                       !.healthStatus = Bump(@, OrDesconocido(curr.health_status))]
      ELSE acc

RECURSIVE Reduce(_, _)
Reduce(s, acc) == IF s = <<>> THEN acc ELSE Reduce(Tail(s), StatsStep(acc, Head(s)))

StatsOf(s) == Reduce(s, StatsInit)

stats == StatsOf(filteredPoints)

\* ------------------------------------------------------ data store
\* .order('start_time', { ascending: false }): insertion sort, newest first.
RECURSIVE InsertDesc(_, _)
InsertDesc(t, s) == IF s = <<>> THEN <<t>> ELSE IF t.start_time >= Head(s).start_time THEN <<t>> \o s ELSE <<Head(s)>> \o InsertDesc(t, Tail(s))

RECURSIVE OrderDesc(_)
OrderDesc(s) == IF s = <<>> THEN <<>> ELSE InsertDesc(Head(s), OrderDesc(Tail(s)))

\* supabase.from('trips').select('*').order(...) over a store of n rows.
\* A query reads its table at the moment its response is applied.
SelectTrips(n) == OrderDesc(Prefix(TripRows, n))

\* supabase.from('trip_data').select('*') over a store of n rows.
SelectPoints(n) == Prefix(PointRows, n)

\* Rows inserted by other clients since the session's initial state.
Inserted == (storeTrips - 1) + (storePoints - 1)

\* ------------------------------------------------------ session: Init
NoPush == [trips |-> <<>>, points |-> <<>>, tripsBase |-> <<>>, pointsBase |-> <<>>]

Defaults ==
  /\ filterUser = "all"
  /\ filterStartDate = <<>>
  /\ filterEndDate = <<>>
  /\ filterTrip = "all"
  /\ activeLayers = [t \in LayerTypes |-> TRUE]

Init ==
  /\ phase = "init"
  /\ loading = TRUE
  /\ profiles = <<>>
  /\ trips = <<>>
  /\ points = <<>>
  /\ Defaults
  /\ storeTrips = 1
  /\ storePoints = 1
  /\ channel = <<>>
  /\ fetches = <<>>
  /\ initLoad = <<>>
  /\ opened = 0
  /\ released = 0
  /\ pushLog = NoPush

\* ------------------------------------------------- session: the effect
\* fetchInitialData up to its first await: setLoading(true), profiles query sent.
StartFetch ==
  /\ Len(fetches) < MaxFetch
  /\ loading' = TRUE
  /\ fetches' = Append(fetches, "profiles")

\* subscribeToUpdates: one channel, two INSERT handlers, subscribe().
subscribeToUpdates(n) == n + 1

\* As EffectCleanup, but the cleanup never calls unsubscribe.
EffectCleanupForgotten(n) == n

\* The effect's cleanup: unsubscribe() = supabase.removeChannel(channel).
EffectCleanup(n) == n + 1

\* useEffect(..., []) on mount.
Mount ==
  /\ phase = "init"
  /\ phase' = "mounted"
  /\ StartFetch
  /\ opened' = subscribeToUpdates(opened)
  /\ UNCHANGED <<profiles, trips, points, uiVars, storeTrips, storePoints, channel, initLoad, released, pushLog>>

\* Session teardown: the cleanup returned by the effect runs. The component's
\* state cells are gone (reset here to their useState values); calls still in
\* flight and notifications still on the wire can no longer change them.
Unmount ==
  /\ phase = "mounted"
  /\ phase' = "unmounted"
  /\ released' = EffectCleanup(released)
  /\ loading' = TRUE
  /\ profiles' = <<>>
  /\ trips' = <<>>
  /\ points' = <<>>
  /\ filterUser' = "all"
  /\ filterStartDate' = <<>>
  /\ filterEndDate' = <<>>
  /\ filterTrip' = "all"
  /\ activeLayers' = [t \in LayerTypes |-> TRUE]
  /\ channel' = <<>>
  /\ fetches' = <<>>
  /\ initLoad' = <<"over">>
  /\ pushLog' = NoPush
  /\ UNCHANGED <<storeTrips, storePoints, opened>>

\* The refresh button: onClick={fetchInitialData}.
Refresh ==
  /\ phase = "mounted"
  /\ StartFetch
  /\ initLoad' = <<"over">>
  /\ UNCHANGED <<phase, profiles, trips, points, uiVars, storeTrips, storePoints, channel, opened, released, pushLog>>

\* ------------------------------------------- session: fetchInitialData
Without(s, i) == SubSeq(s, 1, i - 1) \o SubSeq(s, i + 1, Len(s))

\* History of the mount call's queries, "data", "null" or "throw" each, kept
\* while the mount call is the only call made and the only writer of the
\* collections (<<"over">> from the first refresh click or notification on).
Logged(outcome) == IF initLoad # <<"over">> THEN Append(initLoad, outcome) ELSE initLoad

\* The next query of call i is sent.
Await(i, outcome, pc) ==
  /\ fetches' = [fetches EXCEPT ![i] = pc]
  /\ initLoad' = Logged(outcome)
  /\ UNCHANGED loading

\* As Finally, but without the finally block's setLoading(false).
FinallyMissing(i, outcome) ==
  /\ UNCHANGED loading
  /\ fetches' = Without(fetches, i)
  /\ initLoad' = Logged(outcome)

\* catch (error) { console.error(...) } finally { setLoading(false) }
Finally(i, outcome) ==
  /\ loading' = FALSE
  /\ fetches' = Without(fetches, i)
  /\ initLoad' = Logged(outcome)

\* The await of the profiles query resumes.
AfterProfiles(i) ==
  /\ phase = "mounted"
  /\ fetches[i] = "profiles"
  /\ \/ /\ profiles' = ProfileRows
        /\ Await(i, "data", "trips")
     \/ /\ profiles' = <<>>
        /\ Await(i, "null", "trips")
     \/ /\ Finally(i, "throw")
        /\ UNCHANGED profiles
  /\ UNCHANGED <<phase, trips, points, uiVars, storeTrips, storePoints, channel, opened, released, pushLog>>

\* The await of the trips query resumes.
AfterTrips(i) ==
  /\ phase = "mounted"
  /\ fetches[i] = "trips"
  /\ \/ /\ trips' = SelectTrips(storeTrips)
        /\ pushLog' = [pushLog EXCEPT !.trips = <<>>, !.tripsBase = trips']
        /\ Await(i, "data", "points")
     \/ /\ trips' = <<>>
        /\ pushLog' = [pushLog EXCEPT !.trips = <<>>, !.tripsBase = <<>>]
        /\ Await(i, "null", "points")
     \/ /\ Finally(i, "throw")
        /\ UNCHANGED <<trips, pushLog>>
  /\ UNCHANGED <<phase, profiles, points, uiVars, storeTrips, storePoints, channel, opened, released>>

\* The await of the trip_data query resumes; the function ends.
AfterPoints(i) ==
  /\ phase = "mounted"
  /\ fetches[i] = "points"
  /\ \/ /\ points' = SelectPoints(storePoints)
        /\ pushLog' = [pushLog EXCEPT !.points = <<>>, !.pointsBase = points']
        /\ Finally(i, "data")
     \/ /\ points' = <<>>
        /\ pushLog' = [pushLog EXCEPT !.points = <<>>, !.pointsBase = <<>>]
        /\ Finally(i, "null")
     \/ /\ Finally(i, "throw")
        /\ UNCHANGED <<points, pushLog>>
  /\ UNCHANGED <<phase, profiles, trips, uiVars, storeTrips, storePoints, channel, opened, released>>

\* ---------------------------------------------- session: push channel
\* Another client inserts a row; the store notifies the open channel.
InsertTrip ==
  /\ phase = "mounted"
  /\ Inserted < MaxInserts
  /\ storeTrips < Len(TripRows)
  /\ storeTrips' = storeTrips + 1
  /\ channel' = Append(channel, [table |-> "trips", new |-> TripRows[storeTrips + 1]])
  /\ UNCHANGED <<phase, loading, profiles, trips, points, uiVars, storePoints, fetches, initLoad, opened, released, pushLog>>

InsertPoint ==
  /\ phase = "mounted"
  /\ Inserted < MaxInserts
  /\ storePoints < Len(PointRows)
  /\ storePoints' = storePoints + 1
  /\ channel' = Append(channel, [table |-> "trip_data", new |-> PointRows[storePoints + 1]])
  /\ UNCHANGED <<phase, loading, profiles, trips, points, uiVars, storeTrips, fetches, initLoad, opened, released, pushLog>>

\* setPoints(prev => [...prev, payload.new])
OnPointInsert(prev, new) == prev \o <<new>>

\* As OnTripInsert, but appending like the trip_data handler.
OnTripInsertAppend(prev, new) == prev \o <<new>>

\* setTrips(prev => [payload.new, ...prev])
OnTripInsert(prev, new) == <<new>> \o prev

\* The oldest notification in flight arrives and its handler runs.
Deliver ==
  /\ phase = "mounted"
  /\ channel # <<>>
  /\ channel' = Tail(channel)
  /\ LET payload == Head(channel) IN
     IF payload.table = "trip_data"
       THEN /\ points' = OnPointInsert(points, payload.new)
            /\ pushLog' = [pushLog EXCEPT !.points = Append(@, payload.new)]
            /\ UNCHANGED trips
       ELSE /\ trips' = OnTripInsert(trips, payload.new)
            /\ pushLog' = [pushLog EXCEPT !.trips = Append(@, payload.new)]
            /\ UNCHANGED points
  /\ initLoad' = <<"over">>
  /\ UNCHANGED <<phase, loading, profiles, uiVars, storeTrips, storePoints, fetches, opened, released>>

\* ------------------------------------------------------- UI handlers
\* <select value={filterUser} onChange=...>: options 'all' and profiles.
UserOptions == {"all"} \cup {profiles[i].id : i \in 1..Len(profiles)}

\* <select value={filterTrip} onChange=...>: rendered when filterUser !== 'all'.
TripOptions == IF filterUser # "all" THEN {"all"} \cup {filteredTrips[i].id : i \in 1..Len(filteredTrips)} ELSE {}

SelectUser ==
  /\ phase = "mounted"
  /\ \E u \in UserOptions :
       /\ u # filterUser
       /\ filterUser' = u
  /\ filterTrip' = "all"
  /\ UNCHANGED <<phase, loading, profiles, trips, points, filterStartDate, filterEndDate, activeLayers, remoteVars>>

SelectTrip ==
  /\ phase = "mounted"
  /\ \E t \in TripOptions :
       /\ t # filterTrip
       /\ filterTrip' = t
  /\ UNCHANGED <<phase, loading, profiles, trips, points, filterUser, filterStartDate, filterEndDate, activeLayers, remoteVars>>

SetStartDate ==
  /\ phase = "mounted"
  /\ \E d \in DateInputs : filterStartDate' = d
  /\ UNCHANGED <<phase, loading, profiles, trips, points, filterUser, filterEndDate, filterTrip, activeLayers, remoteVars>>

SetEndDate ==
  /\ phase = "mounted"
  /\ \E d \in DateInputs : filterEndDate' = d
  /\ UNCHANGED <<phase, loading, profiles, trips, points, filterUser, filterStartDate, filterTrip, activeLayers, remoteVars>>

\* setActiveLayers(prev => ({ ...prev, [type]: !prev[type] }))
toggleLayer(prev, type) == [prev EXCEPT ![type] = ~@]

ToggleLayer ==
  /\ phase = "mounted"
  /\ \E type \in DOMAIN activeLayers : activeLayers' = toggleLayer(activeLayers, type)
  /\ UNCHANGED <<phase, loading, profiles, trips, points, filterUser, filterStartDate, filterEndDate, filterTrip, remoteVars>>

\* ------------------------------------------------- the session
Next ==
  \/ Mount
  \/ Unmount
  \/ Refresh
  \/ \E i \in DOMAIN fetches : AfterProfiles(i)
  \/ \E i \in DOMAIN fetches : AfterTrips(i)
  \/ \E i \in DOMAIN fetches : AfterPoints(i)
  \/ InsertTrip
  \/ InsertPoint
  \/ Deliver
  \/ SelectUser
  \/ SelectTrip

Spec == Init /\ [][Next]_vars

\* Every started fetch resumes (the store answers or the request fails).
Resume == \E i \in DOMAIN fetches : AfterProfiles(i) \/ AfterTrips(i) \/ AfterPoints(i)

FairSpec == Spec /\ WF_vars(Resume)

\* ------------------------------------------------- the pipeline alone
\* A loaded session with the collections drawn from bounded sets; the UI
\* handlers then make every selection the controls offer.
RECURSIVE SeqsUpTo(_, _)
SeqsUpTo(S, n) == IF n = 0 THEN {<<>>} ELSE LET shorter == SeqsUpTo(S, n - 1) IN shorter \cup {Append(s, x) : s \in shorter, x \in S}

InitPipeline ==
  /\ phase = "mounted"
  /\ loading = FALSE
  /\ profiles = ProfileRows
  /\ trips \in {SelectTrips(1), SelectTrips(3)}
  /\ points \in SeqsUpTo(Range(PointRows), MaxPts)
  /\ Defaults
  /\ storeTrips = Len(TripRows)
  /\ storePoints = Len(PointRows)
  /\ channel = <<>>
  /\ fetches = <<>>
  /\ initLoad = <<"over">>
  /\ opened = 1
  /\ released = 0
  /\ pushLog = [trips |-> <<>>, points |-> <<>>, tripsBase |-> trips, pointsBase |-> points]

NextPipeline ==
  \/ SelectUser
  \/ SelectTrip
  \/ SetStartDate
  \/ SetEndDate
  \/ ToggleLayer

SpecPipeline == InitPipeline /\ [][NextPipeline]_vars

\* =================================================== claims: the session
Reverse(s) == [i \in 1..Len(s) |-> s[Len(s) + 1 - i]]

\* C1 (as claimed): within a session a trip or point that is in the local
\* collection is still in it after every step (push insert, refresh click,
\* bulk-fetch completion).
C1_AppendOnly == [][phase' = "mounted" => Range(trips) \subseteq Range(trips') /\ Range(points) \subseteq Range(points')]_vars

\* C2 (as claimed): since the last bulk replace, both collections are the
\* replaced value followed by the pushed records in arrival order.
C2_PushAppendsBoth == phase = "mounted" => points = pushLog.pointsBase \o pushLog.points /\ trips = pushLog.tripsBase \o pushLog.trips

\* C2 (amended): since the last bulk replace, points is the replaced value
\* followed by the pushed points in arrival order, and trips is the pushed
\* trips, latest arrival first, followed by the replaced value.
C2_PushOrder == phase = "mounted" => points = pushLog.pointsBase \o pushLog.points /\ trips = Reverse(pushLog.trips) \o pushLog.tripsBase

\* Two trip notifications were handled on top of a non-empty collection.
C2_Witness == phase = "mounted" /\ Len(pushLog.trips) = 2 /\ pushLog.tripsBase # <<>>

\* The mount call's queries so far; "skipped" for one it has not reached.
InitOutcome(k) == IF k <= Len(initLoad) THEN initLoad[k] ELSE "skipped"

\* The mount call has ended and nothing else has written the collections.
InitEnded == phase = "mounted" /\ initLoad # <<"over">> /\ initLoad # <<>> /\ (Len(initLoad) = 3 \/ initLoad[Len(initLoad)] = "throw")

InitFailed == \E k \in 1..Len(initLoad) : initLoad[k] \in {"null", "throw"}

NothingShown == filteredPoints = <<>> /\ stats = StatsInit

\* C5 (as claimed): when the initial bulk fetch has failed (a query threw or
\* returned no data), profiles, trips and points are empty, nothing is
\* plotted, the statistics are zero and loading is false.
C5_FailureLeavesAllEmpty == InitEnded /\ InitFailed => profiles = <<>> /\ trips = <<>> /\ points = <<>> /\ NothingShown /\ ~loading

\* C5 (amended), state part: when the initial bulk fetch has ended, with or
\* without a failure, the call is gone and loading is false; every collection
\* whose query threw, returned no data or was not reached is empty; without
\* point data nothing is plotted and the statistics are zero.
C5_FailedCollectionsEmpty ==
  InitEnded =>
    /\ fetches = <<>>
    /\ ~loading
    /\ (InitOutcome(1) # "data" => profiles = <<>>)
    /\ (InitOutcome(2) # "data" => trips = <<>>)
    /\ (InitOutcome(3) # "data" => points = <<>> /\ NothingShown)

\* C5 (amended): the state part, and whenever loading is true in a mounted
\* session it becomes false again (or the session ends).
C5_FailureContained == []C5_FailedCollectionsEmpty /\ ((phase = "mounted" /\ loading) ~> (~loading \/ phase = "unmounted"))

\* The initial fetch failed outright: its first query threw.
C5_Witness == InitEnded /\ initLoad = <<"throw">> /\ ~loading /\ points = <<>>

\* C6: the channel is opened exactly once, on mount, and released exactly
\* once, at teardown and not before.
C6_SubscribedOnce ==
  /\ phase = "init" => opened = 0 /\ released = 0
  /\ phase = "mounted" => opened = 1 /\ released = 0
  /\ phase = "unmounted" => opened = 1 /\ released = 1

\* A session that saw inserts by other clients has been torn down.
C6_Witness == phase = "unmounted" /\ released = 1 /\ Inserted = MaxInserts

\* C9 (as claimed): a selected trip belongs to the selected user and is one
\* of filteredTrips.
C9_TripConsistent == phase = "mounted" /\ filterTrip # "all" => filterUser # "all" /\ \E i \in 1..Len(filteredTrips) : filteredTrips[i].id = filterTrip

\* C10 (as claimed): loading is false only if no fetchInitialData call is
\* in flight.
C10_LoadingTracksFetches == phase = "mounted" /\ ~loading => fetches = <<>>

\* ================================================== claims: the pipeline
RECURSIVE IsSubsequence(_, _)
IsSubsequence(sub, s) == IF sub = <<>> THEN TRUE ELSE IF s = <<>> THEN FALSE ELSE IF Head(sub) = Head(s) THEN IsSubsequence(Tail(sub), Tail(s)) ELSE IsSubsequence(sub, Tail(s))

\* C3: filteredPoints is a subsequence of points.
C3_Subsequence == IsSubsequence(filteredPoints, points)

\* Every selection restricts and the pipeline keeps some points and drops others.
C3_Witness == filterUser # "all" /\ filterStartDate # <<>> /\ filterTrip # "all" /\ (\E t \in LayerTypes : ~activeLayers[t]) /\ Len(filteredPoints) >= 2 /\ Len(filteredPoints) < Len(points)

\* The four stage predicates, stated on one point.
OwnedByUser(p) == \E t \in Range(trips) : t.id = p.trip_id /\ t.user_id = filterUser

InDateRange(p) ==
  /\ p.created_at # <<>>
  /\ filterStartDate # <<>> => p.created_at[1] >= filterStartDate[1] * TicksPerDay
  /\ filterEndDate # <<>> => p.created_at[1] < (filterEndDate[1] + 1) * TicksPerDay

Visible(p) ==
  /\ filterUser # "all" => OwnedByUser(p)
  /\ filterStartDate # <<>> \/ filterEndDate # <<>> => InDateRange(p)
  /\ filterTrip # "all" => p.trip_id = filterTrip
  /\ p.type \in LayerTypes /\ activeLayers[p.type]

Stage(k, s) ==
  CASE k = 1 -> StageUser(s, trips, filterUser)
    [] k = 2 -> StageDate(s, filterStartDate, filterEndDate)
    [] k = 3 -> StageTrip(s, filterTrip)
    [] OTHER -> StageLayers(s, activeLayers)

StageOrders == Permutations(1..4)

InOrder(o) == Stage(o[4], Stage(o[3], Stage(o[2], Stage(o[1], points))))

Dangling(p) == \A t \in Range(trips) : t.id # p.trip_id

\* C4: filteredPoints is exactly the points satisfying the four stage
\* predicates, whatever the order of the stages; a point whose trip is not
\* in trips passes the user stage when filterUser is 'all' and is excluded
\* when filterUser is restricted.
C4_Conjunction ==
  /\ filteredPoints = SelectSeq(points, Visible)
  /\ \A o \in StageOrders : InOrder(o) = filteredPoints
  /\ \A i \in 1..Len(points) : Dangling(points[i]) =>
       IF filterUser = "all" THEN points[i] \in Range(StageUser(points, trips, filterUser)) ELSE points[i] \notin Range(filteredPoints)

\* A restricted user who owns no trip in trips, and a dangling point.
C4_Witness == filterUser = "u1" /\ userTripIds(trips, "u1") = <<>> /\ points # <<>> /\ filteredPoints = <<>> /\ \E i \in 1..Len(points) : points[i].trip_id = "t9"

\* C7: folding any permutation of filteredPoints gives the same statistics.
C7_OrderIndependent == \A perm \in Permutations(1..Len(filteredPoints)) : StatsOf([i \in 1..Len(filteredPoints) |-> filteredPoints[perm[i]]]) = stats

\* Three points are folded, with two hazard categories among them.
C7_Witness == Len(filteredPoints) = 3 /\ Cardinality(DOMAIN stats.dangerTypes) = 2

KeySum(g, h) == [k \in DOMAIN g \cup DOMAIN h |-> (IF k \in DOMAIN g THEN g[k] ELSE 0) + (IF k \in DOMAIN h THEN h[k] ELSE 0)]

StatsSum(a, b) == [adults |-> a.adults + b.adults, calves |-> a.calves + b.calves, danger |-> a.danger + b.danger, dangerTypes |-> KeySum(a.dangerTypes, b.dangerTypes), healthStatus |-> KeySum(a.healthStatus, b.healthStatus)]

IsMarker(p) == p.type \in {"Inicio", "Fin"}

\* C8: for every split of filteredPoints into A ++ B the statistics are the
\* sum of those of A and of B, and dropping the start and end markers leaves
\* the statistics unchanged.
C8_Additive ==
  /\ \A k \in 0..Len(filteredPoints) : stats = StatsSum(StatsOf(SubSeq(filteredPoints, 1, k)), StatsOf(SubSeq(filteredPoints, k + 1, Len(filteredPoints))))
  /\ stats = StatsOf(SelectSeq(filteredPoints, LAMBDA p : ~IsMarker(p)))

\* A start marker carrying counts and a category is folded with a sighting and a hazard.
C8_Witness == Len(filteredPoints) = 3 /\ stats.adults = 2 /\ stats.danger = 1 /\ \E i \in 1..3 : filteredPoints[i].type = "Inicio" /\ filteredPoints[i].adults # <<>>

====
